---- MODULE Spec2Model ----
(***************************************************************************)
(* Model of xmanager/xm/executables.py: the name-derivation function       *)
(* _name_from_path and the five executable specifications built on it      *)
(* (PythonContainer, Container, Binary, BazelContainer, BazelBinary).      *)
(*                                                                         *)
(* A Python str is modelled as a sequence of characters.  An ASCII         *)
(* character is the one-character TLA+ string; a non-ASCII character is    *)
(* written as its code point ("U+00E9" is e-acute, "U+0663" is the         *)
(* Arabic-Indic digit three).  Paths follow POSIX rules (os.sep = "/").    *)
(***************************************************************************)
EXTENDS Integers, Sequences, FiniteSets, TLC

VARIABLES
    p,          \* SpecName: the string handed to _name_from_path
    nsep,       \* SpecName: how many separators the second call appends to p
    pc,         \* SpecName: position of the caller ("start", "derived", "done")
    out,        \* SpecName: _name_from_path(p)
    outPadded,  \* SpecName: _name_from_path(p + nsep * os.sep)
    objs,       \* Spec: the constructed instances, objs[i] is instance i
    heap,       \* Spec: the list objects; a dependencies field holds an index
    ret,        \* Spec: what the last operation returned or raised
    ctor,       \* Spec (history): ctor[i] records how instance i was constructed
    normCalls   \* Spec (history): number of calls of utils.get_absolute_path

vars == <<p, nsep, pc, out, outPadded, objs, heap, ret, ctor, normCalls>>

nameVars == <<p, nsep, pc, out, outPadded>>
objVars == <<objs, heap, ret, ctor, normCalls>>

-----------------------------------------------------------------------------
(* Bounds *)

MaxLen == 4
MaxSeps == 2
MaxSpecs == 1
MaxDeps == 1
MaxContainers == 2
MaxBinaries == 2

-----------------------------------------------------------------------------
(* Characters *)

sep == "/"

AsciiLetters == {"a", "b", "e", "f", "g", "i", "m", "o", "r", "t", "w", "Z"}
AsciiDigits == {"7"}
AsciiWord == AsciiLetters \cup AsciiDigits \cup {"_"}
AsciiNonWord == {"/", "-", ":", "."}
NonAsciiAlnum == {"U+00E9", "U+0663"}

\* re: a str pattern is matched with Unicode semantics, so \w is every
\* character for which str.isalnum() holds, and the underscore.
IsWord(c) == c \in AsciiWord \cup NonAsciiAlnum

-----------------------------------------------------------------------------
(* _name_from_path *)

\* stripping at most one trailing separator
rstrip_once(s, c) ==
    IF s # <<>> /\ s[Len(s)] = c THEN SubSeq(s, 1, Len(s) - 1) ELSE s

\* str.rstrip(chars) with a one-character chars
RECURSIVE rstrip(_, _)
rstrip(s, c) ==
    IF s = <<>> THEN s
    ELSE IF s[Len(s)] = c THEN rstrip(SubSeq(s, 1, Len(s) - 1), c)
    ELSE s

\* str.rfind(c): the highest 0-based index of c in s, or -1
rfind(s, c) ==
    LET hits == {i \in 1..Len(s) : s[i] = c}
    IN IF hits = {} THEN -1
       ELSE (CHOOSE i \in hits : \A j \in hits : j <= i) - 1

\* a basename that cuts at the first separator
basename_first(path) ==
    LET hits == {i \in 1..Len(path) : path[i] = sep}
        i == IF hits = {} THEN 0 ELSE CHOOSE k \in hits : \A j \in hits : k <= j
    IN SubSeq(path, i + 1, Len(path))

\* posixpath.basename: i = p.rfind(sep) + 1; return p[i:]
basename(path) ==
    LET i == rfind(path, sep) + 1
    IN SubSeq(path, i + 1, Len(path))

\* re.sub('\\W+', '_', s): one underscore for a whole run
RECURSIVE re_sub_W_plus(_)
re_sub_W_plus(s) ==
    IF s = <<>> THEN <<>>
    ELSE IF IsWord(Head(s)) THEN <<Head(s)>> \o re_sub_W_plus(Tail(s))
    ELSE IF Len(s) > 1 /\ ~IsWord(s[2]) THEN re_sub_W_plus(Tail(s))
    ELSE <<"_">> \o re_sub_W_plus(Tail(s))

\* re.sub('\\W', '_', s): scan left to right, every match of \W (one
\* character) is replaced by the replacement string
RECURSIVE re_sub_W(_)
re_sub_W(s) ==
    IF s = <<>> THEN <<>>
    ELSE IF IsWord(Head(s)) THEN <<Head(s)>> \o re_sub_W(Tail(s))
    ELSE <<"_">> \o re_sub_W(Tail(s))

name_from_path(path) == re_sub_W(basename(rstrip(path, sep)))

-----------------------------------------------------------------------------
(* SpecName: the pure function applied to bounded inputs *)

Sigma == {"a", "7", "_", "/", "-", "U+00E9"}

BoundedStrings == UNION {[1..k -> Sigma] : k \in 0..MaxLen}

BazelLabel ==
    <<"/", "/", "f", "o", "o", "/", "b", "a", "r", ":",
      "i", "m", "a", "g", "e", ".", "t", "a", "r">>

Inputs == BoundedStrings \cup {BazelLabel, <<"a", "/", "b", "/">>}

RECURSIVE Seps(_)
Seps(n) == IF n = 0 THEN <<>> ELSE <<sep>> \o Seps(n - 1)

ObjInit ==
    /\ objs = <<>>
    /\ heap = <<>>
    /\ ret = [op |-> "none", cls |-> "", status |-> "ok", obj |-> 0,
               field |-> "", args |-> [none |-> <<>>], value |-> <<>>]
    /\ ctor = <<>>
    /\ normCalls = 0

InitName ==
    /\ p \in Inputs
    /\ nsep \in 0..MaxSeps
    /\ pc = "start"
    /\ out = <<>>
    /\ outPadded = <<>>
    /\ ObjInit

Derive ==
    /\ pc = "start"
    /\ out' = name_from_path(p)
    /\ pc' = "derived"
    /\ UNCHANGED <<p, nsep, outPadded>>
    /\ UNCHANGED objVars

DerivePadded ==
    /\ pc = "derived"
    /\ outPadded' = name_from_path(p \o Seps(nsep))
    /\ pc' = "done"
    /\ UNCHANGED <<p, nsep, out>>
    /\ UNCHANGED objVars

NextName == Derive \/ DerivePadded

SpecName == InitName /\ [][NextName]_vars

-----------------------------------------------------------------------------
(* utils.get_absolute_path, the path-resolution collaborator *)

Cwd == <<"/", "w">>

isabs(s) == s # <<>> /\ s[1] = sep

\* the components of s between separators
RECURSIVE split(_, _)
split(s, cur) ==
    IF s = <<>> THEN <<cur>>
    ELSE IF Head(s) = sep THEN <<cur>> \o split(Tail(s), <<>>)
    ELSE split(Tail(s), Append(cur, Head(s)))

\* drop empty and "." components; ".." removes the component before it
RECURSIVE resolve(_, _)
resolve(comps, acc) ==
    IF comps = <<>> THEN acc
    ELSE LET c == Head(comps)
         IN IF c = <<>> \/ c = <<".">> THEN resolve(Tail(comps), acc)
            ELSE IF c = <<".", ".">>
                 THEN resolve(Tail(comps),
                              IF acc = <<>> THEN acc
                              ELSE SubSeq(acc, 1, Len(acc) - 1))
            ELSE resolve(Tail(comps), Append(acc, c))

RECURSIVE join(_)
join(comps) ==
    IF comps = <<>> THEN <<>>
    ELSE <<sep>> \o Head(comps) \o join(Tail(comps))

\* normalize(path) -> absolute canonical path
get_absolute_path(path) ==
    LET abs == IF isabs(path) THEN path ELSE Cwd \o <<sep>> \o path
        body == join(resolve(split(abs, <<>>), <<>>))
    IN IF body = <<>> THEN <<sep>> ELSE body

-----------------------------------------------------------------------------
(* Values the callers pass *)

\* the marker of an argument the caller leaves out, and Python's None
Missing == <<"<missing>">>
None == <<"<None>">>

\* NamedTuples are tuples: the class tag followed by the fields
ModuleName(module_name) == <<"ModuleName", module_name>>
CommandList(commands) == <<"CommandList">> \o commands

Entrypoints == {ModuleName("pkg.main"), CommandList(<<"echo a", "echo b">>)}
BaseImages == {<<"ubuntu">>}
DockerLists == {<<"RUN pip install x">>}
StrArgs == {<<>>, <<sep>>, BazelLabel}
Deps == {"d1"}
DepLists == {<<"d1">>}

Default(arg, dflt) == IF arg = Missing THEN dflt ELSE arg

-----------------------------------------------------------------------------
(* The attrs classes *)

\* a dependencies default shared by every instance (dependencies = [])
SharedList(h) ==
    [ref |-> 1, heap |-> IF h = <<>> THEN <<<<>>>> ELSE h]

\* attr.Factory(list): list() is called in every __init__ that is given no
\* dependencies
FactoryList(h) == [ref |-> Len(h) + 1, heap |-> Append(h, <<>>)]

\* a list object the caller built and passes in
CallerList(h, items) == [ref |-> Len(h) + 1, heap |-> Append(h, items)]

\* the arguments of a call, as the result record carries them
NoArgs == [none |-> <<>>]

Result(op, cls, status, i, field, args, value) ==
    [op |-> op, cls |-> cls, status |-> status, obj |-> i, field |-> field,
     args |-> args, value |-> value]

\* __init__ without a value for a mandatory attribute raises TypeError
Raise(cls, args) ==
    /\ ret' = Result("new", cls, "TypeError", 0, "", args, <<>>)
    /\ UNCHANGED <<objs, heap, normCalls>>

\* __init__ returns: the caller holds the new instance
Return(o, args) ==
    /\ objs' = Append(objs, o)
    /\ ret' = Result("new", o.cls, "ok", Len(objs) + 1, "", args, <<>>)

\* a PythonContainer whose path is stored as passed
PythonContainerRaw(entrypoint, path, base_image, docker_instructions) ==
    [cls |-> "PythonContainer",
     entrypoint |-> entrypoint,
     path |-> Default(path, <<".">>),
     base_image |-> Default(base_image, None),
     docker_instructions |-> Default(docker_instructions, None)]

\* a PythonContainer into whose docker_instructions the copy of the
\* project directory is injected
PythonContainerInject(entrypoint, path, base_image, docker_instructions) ==
    [cls |-> "PythonContainer",
     entrypoint |-> entrypoint,
     path |-> get_absolute_path(Default(path, <<".">>)),
     base_image |-> Default(base_image, None),
     docker_instructions |->
        IF docker_instructions = Missing THEN None
        ELSE <<"COPY . .", "WORKDIR .">> \o docker_instructions]

\* the instance PythonContainer.__init__ builds: the converter of path is
\* applied to the argument and to the default alike
PythonContainer(entrypoint, path, base_image, docker_instructions) ==
    [cls |-> "PythonContainer",
     entrypoint |-> entrypoint,
     path |-> get_absolute_path(Default(path, <<".">>)),
     base_image |-> Default(base_image, None),
     docker_instructions |-> Default(docker_instructions, None)]

Container(image_path) == [cls |-> "Container", image_path |-> image_path]

Binary(path, ref) == [cls |-> "Binary", path |-> path, dependencies |-> ref]

BazelContainer(label) == [cls |-> "BazelContainer", label |-> label]

BazelBinary(label, ref) ==
    [cls |-> "BazelBinary", label |-> label, dependencies |-> ref]

\* an __init__ that accepts a call without the mandatory attribute
MandatoryOptional(arg) == FALSE

\* the generated __init__ has no default for the attribute
MandatoryMissing(arg) == arg = Missing

\* the paths of the PythonContainers the caller holds
StoredPaths ==
    {objs[i].path : i \in {j \in 1..Len(objs) : objs[j].cls = "PythonContainer"}}

NewPythonContainer(cap, eps, paths, bis, dis) ==
    \E entrypoint \in eps \cup {Missing},
       path \in paths \cup {Missing} \cup StoredPaths,
       base_image \in bis \cup {Missing},
       docker_instructions \in dis \cup {Missing} :
        LET args == [entrypoint |-> entrypoint, path |-> path,
                     base_image |-> base_image,
                     docker_instructions |-> docker_instructions]
        IN /\ Len(objs) < cap
           /\ UNCHANGED nameVars
           /\ IF MandatoryMissing(entrypoint)
              THEN Raise("PythonContainer", args)
              ELSE /\ Return(PythonContainer(entrypoint, path, base_image,
                                             docker_instructions), args)
                   /\ normCalls' = normCalls + 1
                   /\ UNCHANGED heap

NewContainer(cap, strs) ==
    \E image_path \in strs \cup {Missing} :
        LET args == [image_path |-> image_path]
        IN /\ Len(objs) < cap
           /\ UNCHANGED nameVars
           /\ IF MandatoryMissing(image_path)
              THEN Raise("Container", args)
              ELSE /\ Return(Container(image_path), args)
                   /\ UNCHANGED <<heap, normCalls>>

NewBinary(cap, strs) ==
    \E path \in strs \cup {Missing}, dependencies \in DepLists \cup {Missing} :
        LET args == [path |-> path, dependencies |-> dependencies]
            l == IF dependencies = Missing THEN FactoryList(heap)
                 ELSE CallerList(heap, dependencies)
        IN /\ Len(objs) < cap
           /\ UNCHANGED nameVars
           /\ IF MandatoryMissing(path)
              THEN Raise("Binary", args)
              ELSE /\ Return(Binary(path, l.ref), args)
                   /\ heap' = l.heap
                   /\ UNCHANGED normCalls

NewBazelContainer(cap, strs) ==
    \E label \in strs \cup {Missing} :
        LET args == [label |-> label]
        IN /\ Len(objs) < cap
           /\ UNCHANGED nameVars
           /\ IF MandatoryMissing(label)
              THEN Raise("BazelContainer", args)
              ELSE /\ Return(BazelContainer(label), args)
                   /\ UNCHANGED <<heap, normCalls>>

NewBazelBinary(cap, strs) ==
    \E label \in strs \cup {Missing}, dependencies \in DepLists \cup {Missing} :
        LET args == [label |-> label, dependencies |-> dependencies]
            l == IF dependencies = Missing THEN FactoryList(heap)
                 ELSE CallerList(heap, dependencies)
        IN /\ Len(objs) < cap
           /\ UNCHANGED nameVars
           /\ IF MandatoryMissing(label)
              THEN Raise("BazelBinary", args)
              ELSE /\ Return(BazelBinary(label, l.ref), args)
                   /\ heap' = l.heap
                   /\ UNCHANGED normCalls

\* the attribute each class derives its name from
IdentField(o) ==
    CASE o.cls = "PythonContainer" -> "path"
      [] o.cls = "Container" -> "image_path"
      [] o.cls = "Binary" -> "path"
      [] o.cls = "BazelContainer" -> "label"
      [] o.cls = "BazelBinary" -> "label"

HasDeps(o) == o.cls \in {"Binary", "BazelBinary"}

\* the name property of the five classes
name(o) == name_from_path(o[IdentField(o)])

\* a name property that stores what it derived
ReadNameStoring(i) ==
    /\ i \in 1..Len(objs)
    /\ ret' = Result("name", objs[i].cls, "ok", i, "", NoArgs, name(objs[i]))
    /\ objs' = [objs EXCEPT ![i][IdentField(objs[i])] = name(objs[i])]
    /\ UNCHANGED <<heap, normCalls>>
    /\ UNCHANGED nameVars

\* the caller reads objs[i].name
ReadName(i) ==
    /\ i \in 1..Len(objs)
    /\ ret' = Result("name", objs[i].cls, "ok", i, "", NoArgs, name(objs[i]))
    /\ UNCHANGED <<objs, heap, normCalls>>
    /\ UNCHANGED nameVars

\* the attributes of a class that hold a string, a tuple or a list of
\* strings, with the values a caller assigns to them
FieldValues(o, strs) ==
    IF o.cls = "PythonContainer"
    THEN [entrypoint |-> Entrypoints, path |-> strs,
          base_image |-> BaseImages \cup {None},
          docker_instructions |-> DockerLists \cup {None}]
    ELSE (IdentField(o) :> strs)

\* objs[i].<field> = value: the classes are not frozen, and attr.s runs no
\* converter on assignment
SetAttr(i, fields, strs) ==
    /\ i \in 1..Len(objs)
    /\ \E f \in (DOMAIN FieldValues(objs[i], strs)) \cap fields :
         \E v \in FieldValues(objs[i], strs)[f] :
            /\ objs' = [objs EXCEPT ![i][f] = v]
            /\ ret' = Result("setattr", objs[i].cls, "ok", i, f,
                             [value |-> v], <<>>)
    /\ UNCHANGED <<heap, normCalls>>
    /\ UNCHANGED nameVars

\* objs[i].dependencies = <a list the caller built>
SetDependencies(i, cap) ==
    /\ i \in 1..Len(objs)
    /\ HasDeps(objs[i])
    /\ Len(heap) < cap
    /\ \E items \in DepLists :
         LET l == CallerList(heap, items)
         IN /\ heap' = l.heap
            /\ objs' = [objs EXCEPT ![i].dependencies = l.ref]
            /\ ret' = Result("setattr", objs[i].cls, "ok", i, "dependencies",
                             [value |-> items], <<>>)
    /\ UNCHANGED normCalls
    /\ UNCHANGED nameVars

\* objs[i].dependencies.append(d)
AppendDependency(i) ==
    /\ i \in 1..Len(objs)
    /\ HasDeps(objs[i])
    /\ Len(heap[objs[i].dependencies]) < MaxDeps
    /\ \E d \in Deps :
         heap' = [heap EXCEPT ![objs[i].dependencies] = Append(@, d)]
    /\ ret' = Result("append", objs[i].cls, "ok", i, "", NoArgs, <<>>)
    /\ UNCHANGED <<objs, normCalls>>
    /\ UNCHANGED nameVars

\* objs[i].dependencies.pop()
PopDependency(i) ==
    /\ i \in 1..Len(objs)
    /\ HasDeps(objs[i])
    /\ heap[objs[i].dependencies] # <<>>
    /\ heap' = [heap EXCEPT ![objs[i].dependencies] = SubSeq(@, 1, Len(@) - 1)]
    /\ ret' = Result("pop", objs[i].cls, "ok", i, "", NoArgs, <<>>)
    /\ UNCHANGED <<objs, normCalls>>
    /\ UNCHANGED nameVars

-----------------------------------------------------------------------------
(* Spec: the five classes, one caller *)

AllFields ==
    {"entrypoint", "path", "base_image", "docker_instructions", "image_path",
     "label"}

Init ==
    /\ p = <<>>
    /\ nsep = 0
    /\ pc = "objects"
    /\ out = <<>>
    /\ outPadded = <<>>
    /\ ObjInit

Next ==
    \/ NewPythonContainer(MaxSpecs, Entrypoints, StrArgs, BaseImages, DockerLists)
         /\ UNCHANGED ctor
    \/ NewContainer(MaxSpecs, StrArgs) /\ UNCHANGED ctor
    \/ NewBinary(MaxSpecs, StrArgs) /\ UNCHANGED ctor
    \/ NewBazelContainer(MaxSpecs, StrArgs) /\ UNCHANGED ctor
    \/ NewBazelBinary(MaxSpecs, StrArgs) /\ UNCHANGED ctor
    \/ \E i \in 1..MaxSpecs : ReadName(i) /\ UNCHANGED ctor
    \/ \E i \in 1..MaxSpecs : SetAttr(i, AllFields, StrArgs) /\ UNCHANGED ctor
    \/ \E i \in 1..MaxSpecs : SetDependencies(i, MaxSpecs + 1) /\ UNCHANGED ctor
    \/ \E i \in 1..MaxSpecs : AppendDependency(i) /\ UNCHANGED ctor
    \/ \E i \in 1..MaxSpecs : PopDependency(i) /\ UNCHANGED ctor

Spec == Init /\ [][Next]_vars

-----------------------------------------------------------------------------
(* History: how each instance was constructed and what was done to it *)

HistoryOfNew ==
    [path_arg |-> IF ret'.cls = "PythonContainer"
                  THEN Default(ret'.args.path, <<".">>) ELSE <<>>,
     defaulted |-> IF ret'.cls \in {"Binary", "BazelBinary"}
                   THEN ret'.args.dependencies = Missing ELSE FALSE,
     touched |-> FALSE,
     path_assigned |-> FALSE]

History ==
    ctor' =
        CASE ret'.op = "new" /\ ret'.status = "ok" -> Append(ctor, HistoryOfNew)
          [] ret'.op = "setattr" /\ ret'.field = "path" ->
                [ctor EXCEPT ![ret'.obj].path_assigned = TRUE]
          [] ret'.op \in {"append", "pop"} ->
                [ctor EXCEPT ![ret'.obj].touched = TRUE]
          [] OTHER -> ctor

-----------------------------------------------------------------------------
(* SpecPython: PythonContainers and their paths *)

PyPaths == {<<>>, <<sep>>, <<"a", sep>>, <<".", ".", sep, "b">>}
PyAssigned == {<<"a", sep>>, <<".">>}

NextPython ==
    \/ NewPythonContainer(MaxContainers, {ModuleName("pkg.main")}, PyPaths, {}, {})
         /\ History
    \/ \E i \in 1..MaxContainers : ReadName(i) /\ History
    \/ \E i \in 1..MaxContainers : SetAttr(i, {"path"}, PyAssigned) /\ History

SpecPython == Init /\ [][NextPython]_vars

-----------------------------------------------------------------------------
(* SpecDeps: Binary and BazelBinary and their dependencies *)

DepStrs == {<<"a">>}

NextDeps ==
    \/ NewBinary(MaxBinaries, DepStrs) /\ History
    \/ NewBazelBinary(MaxBinaries, DepStrs) /\ History
    \/ \E i \in 1..MaxBinaries : AppendDependency(i) /\ History
    \/ \E i \in 1..MaxBinaries : PopDependency(i) /\ History

SpecDeps == Init /\ [][NextDeps]_vars

-----------------------------------------------------------------------------
(* Properties of _name_from_path, checked under SpecName *)

Base == basename(rstrip(p, sep))

IsAscii(s) == \A i \in 1..Len(s) : s[i] \in AsciiWord \cup AsciiNonWord

\* What "every maximal run of characters outside [A-Za-z0-9_] becomes one
\* underscore" prescribes for s
RECURSIVE CollapseRuns(_)
CollapseRuns(s) ==
    IF s = <<>> THEN <<>>
    ELSE IF Head(s) \in AsciiWord THEN <<Head(s)>> \o CollapseRuns(Tail(s))
    ELSE IF Len(s) > 1 /\ s[2] \notin AsciiWord THEN CollapseRuns(Tail(s))
    ELSE <<"_">> \o CollapseRuns(Tail(s))

C2_AsciiWordOnly ==
    pc # "start" => \A i \in 1..Len(out) : out[i] \in AsciiWord

\* C6: appending any number of path separators to p does not change the
\* derived name.
C6_TrailingSeparators ==
    pc = "done" => outPadded = out

C6_Witness ==
    /\ pc = "done"
    /\ nsep >= 2
    /\ out # <<>>
    /\ outPadded = out
    /\ p[Len(p)] = sep

-----------------------------------------------------------------------------
(* Properties of the classes *)

FooBarImageTar ==
    <<"f", "o", "o", "_", "b", "a", "r", "_", "i", "m", "a", "g", "e", "_",
      "t", "a", "r">>

BarImageTar ==
    <<"b", "a", "r", "_", "i", "m", "a", "g", "e", "_", "t", "a", "r">>

NameOfBazelLabel ==
    /\ ret.op = "name"
    /\ ret.cls = "BazelContainer"
    /\ objs[ret.obj].label = BazelLabel

\* C3 (as stated): the name of BazelContainer(label="//foo/bar:image.tar"),
\* which is _name_from_path of the label, is "foo_bar_image_tar".
C3_FooBarImageTar == NameOfBazelLabel => ret.value = FooBarImageTar

\* C3 (amended): the name of BazelContainer(label="//foo/bar:image.tar"),
\* which is _name_from_path of the label, is "bar_image_tar": only the
\* final path component "bar:image.tar" is kept.
C3_BarImageTar ==
    NameOfBazelLabel =>
        /\ ret.value = BarImageTar
        /\ ret.value = name_from_path(BazelLabel)

C3_Witness == NameOfBazelLabel /\ ret.value = BarImageTar

\* C4: reading name of a constructed spec of any of the five classes
\* yields a non-empty string, whatever string its identifying field holds.
C4_NameNonEmpty ==
    (ret.op = "name" /\ ret.status = "ok") => ret.value # <<>>

Mandatory(r) ==
    CASE r.cls = "PythonContainer" -> r.args.entrypoint
      [] r.cls = "Container" -> r.args.image_path
      [] r.cls = "Binary" -> r.args.path
      [] r.cls = "BazelContainer" -> r.args.label
      [] r.cls = "BazelBinary" -> r.args.label

\* C8: a construction without the mandatory attribute raises and leaves
\* the caller without an instance; a construction with it succeeds for
\* every string and yields an instance of the class that holds the string
\* (for a PythonContainer the entrypoint) as passed.
C8_MissingRequiredFails ==
    [][ret'.op = "new" =>
          IF Mandatory(ret') = Missing
          THEN /\ ret'.status = "TypeError"
               /\ objs' = objs
          ELSE /\ ret'.status = "ok"
               /\ Len(objs') = Len(objs) + 1
               /\ ret'.obj = Len(objs')
               /\ SubSeq(objs', 1, Len(objs)) = objs
               /\ objs'[ret'.obj].cls = ret'.cls
               /\ objs'[ret'.obj][IF ret'.cls = "PythonContainer"
                                  THEN "entrypoint"
                                  ELSE IdentField(objs'[ret'.obj])]
                     = Mandatory(ret')]_vars

C8_Witness ==
    /\ ret.op = "new"
    /\ ret.status = "TypeError"
    /\ ret.cls = "PythonContainer"
    /\ ret.args.path # Missing
    /\ objs = <<>>

\* C10: a constructed PythonContainer holds entrypoint, base_image and
\* docker_instructions as passed, nothing added to the instructions, and
\* None for base_image and docker_instructions when they are left out.
C10_StoredAsPassed ==
    (ret.op = "new" /\ ret.status = "ok" /\ ret.cls = "PythonContainer") =>
        LET o == objs[ret.obj]
        IN /\ o.entrypoint = ret.args.entrypoint
           /\ o.base_image =
                 IF ret.args.base_image = Missing THEN None
                 ELSE ret.args.base_image
           /\ o.docker_instructions =
                 IF ret.args.docker_instructions = Missing THEN None
                 ELSE ret.args.docker_instructions

C10_Witness ==
    /\ ret.op = "new" /\ ret.status = "ok" /\ ret.cls = "PythonContainer"
    /\ ret.args.docker_instructions = <<"RUN pip install x">>
    /\ ret.args.base_image = Missing
    /\ objs[ret.obj].entrypoint = ModuleName("pkg.main")
    /\ objs[ret.obj].docker_instructions = <<"RUN pip install x">>
    /\ objs[ret.obj].base_image = None

-----------------------------------------------------------------------------
(* Properties checked under SpecPython *)

Pristine(i) == ~ctor[i].path_assigned

\* C9: a PythonContainer constructed with path p ("." when left out) holds
\* get_absolute_path(p), computed by one call per construction, and its
\* name is _name_from_path of that; a PythonContainer constructed from the
\* stored path of another holds the same path and has the same name.
\* (The path read is the one construction stored: instances whose path
\* was assigned to afterwards are C5's subject.)
C9_NormalizedPath ==
    /\ normCalls = Len(objs)
    /\ \A i \in 1..Len(objs) :
          Pristine(i) =>
              /\ objs[i].path = get_absolute_path(ctor[i].path_arg)
              /\ (ret.op = "name" /\ ret.obj = i) =>
                    ret.value =
                        name_from_path(get_absolute_path(ctor[i].path_arg))
              /\ \A j \in 1..Len(objs) :
                    (Pristine(j) /\ ctor[j].path_arg = objs[i].path) =>
                        /\ objs[j].path = objs[i].path
                        /\ name(objs[j]) = name(objs[i])

C9_Witness ==
    /\ Len(objs) = 2
    /\ Pristine(1) /\ Pristine(2)
    /\ ctor[1].path_arg = <<".", ".", sep, "b">>
    /\ objs[1].path = <<sep, "b">>
    /\ ctor[2].path_arg = objs[1].path
    /\ objs[2].path = objs[1].path
    /\ ret.op = "name" /\ ret.obj = 2
    /\ ret.value = <<"b">>

-----------------------------------------------------------------------------
(* Properties checked under SpecDeps *)

DefaultBuilt(i) == ctor[i].defaulted

\* C7: every Binary or BazelBinary constructed without dependencies holds
\* a list of its own: whatever is appended to or popped from the
\* dependencies of the other instances, its list is empty until something
\* is appended through the instance itself.
C7_OwnEmptyList ==
    /\ \A i \in 1..Len(objs) :
          (DefaultBuilt(i) /\ ~ctor[i].touched) =>
              heap[objs[i].dependencies] = <<>>
    /\ \A i, j \in 1..Len(objs) :
          (DefaultBuilt(i) /\ i # j) =>
              objs[i].dependencies # objs[j].dependencies

C7_Witness ==
    /\ Len(objs) = 2
    /\ DefaultBuilt(1) /\ DefaultBuilt(2)
    /\ ctor[2].touched /\ ~ctor[1].touched
    /\ heap[objs[2].dependencies] = <<"d1">>
    /\ heap[objs[1].dependencies] = <<>>
    /\ objs[1].cls = "Binary" /\ objs[2].cls = "BazelBinary"

====
